---- MODULE Spec2Model ----
(***************************************************************************)
(* Ogre::Volume::GridSource (Components/Volume/src/OgreVolumeGridSource.cpp) *)
(*                                                                         *)
(* A model of the grid sampler: ray entry/exit against the lattice box,   *)
(* nearest-neighbour and trilinear reconstruction of value and gradient,  *)
(* and the region bake combineWithSource.                                  *)
(*                                                                         *)
(* Real numbers are modelled as exact rationals <<n, d>> (d > 0, lowest   *)
(* terms); rounding of the float type is outside the model.               *)
(***************************************************************************)
EXTENDS Integers, Sequences, FiniteSets, TLC

VARIABLES
    mWidth, mHeight, mDepth,                \* lattice dimensions
    mPosXScale, mPosYScale, mPosZScale,     \* world -> lattice scale factors
    mTrilinearValue, mTrilinearGradient,    \* sampling mode flags
    mGrid,                                  \* backing storage: [x,y,z] -> Real
    mGradKind,                              \* which per-point gradient accessor is plugged in
    ray, maxDistance,                       \* arguments of the intersection calls
    startRet, endRet,                       \* what getIntersectionStart / End returned
    position,                               \* argument of the sampling calls
    valueRet, vgRet,                        \* what getValue / getValueAndGradient returned
    reads,                                  \* the samples the last getValue fetched
    center, radius, operation, sourceB,     \* arguments of combineWithSource
    pc,                                     \* where combineWithSource stands
    oldTrilinearValue,                      \* its local of line 233
    box,                                    \* its locals xStart .. zEnd (lines 237-242)
    x, y, z,                                \* its loop counters
    writes,                                 \* the setVolumeGridValue calls it made, in order
    pre                                     \* flag and storage as they were before the call

vars == << mWidth, mHeight, mDepth, mPosXScale, mPosYScale, mPosZScale,
           mTrilinearValue, mTrilinearGradient, mGrid, mGradKind,
           ray, maxDistance, startRet, endRet, position, valueRet, vgRet, reads,
           center, radius, operation, sourceB, pc, oldTrilinearValue, box,
           x, y, z, writes, pre >>

objVars == << mWidth, mHeight, mDepth, mPosXScale, mPosYScale, mPosZScale,
              mTrilinearGradient, mGradKind >>
rayVars == << ray, maxDistance, startRet, endRet >>
fieldVars == << position, valueRet, vgRet, reads >>
bakeArgs == << center, radius, operation, sourceB >>
bakeVars == << pc, oldTrilinearValue, box, x, y, z, writes, pre >>

\* a result not yet returned, an argument not given
None == << >>
NoRay == [ origin |-> None, direction |-> None ]
NoBox == [ xStart |-> 0, xEnd |-> 0, yStart |-> 0, yEnd |-> 0, zStart |-> 0, zEnd |-> 0 ]
Unbound == [ kind |-> "none", sourceA |-> "none", sourceB |-> None ]

-----------------------------------------------------------------------------
(* Real: exact rational arithmetic *)

Abs(n) == IF n < 0 THEN -n ELSE n

RECURSIVE GCD(_, _)
GCD(a, b) == IF b = 0 THEN a ELSE GCD(b, a % b)

Norm(n, d) ==
    LET s == IF d < 0 THEN -1 ELSE 1
        g == GCD(Abs(n), Abs(d))
    IN  << (s * n) \div g, (s * d) \div g >>

R(n) == << n, 1 >>
Frac(n, d) == Norm(n, d)
RAdd(a, b) == Norm(a[1] * b[2] + b[1] * a[2], a[2] * b[2])
RSub(a, b) == Norm(a[1] * b[2] - b[1] * a[2], a[2] * b[2])
RMul(a, b) == Norm(a[1] * b[1], a[2] * b[2])
RDiv(a, b) == Norm(a[1] * b[2], a[2] * b[1])
RNeg(a) == << -a[1], a[2] >>
RLe(a, b) == a[1] * b[2] <= b[1] * a[2]
RLt(a, b) == a[1] * b[2] < b[1] * a[2]
RMin(a, b) == IF RLe(a, b) THEN a ELSE b
RMax(a, b) == IF RLe(a, b) THEN b ELSE a
RIsInt(a) == a[2] = 1

\* floor(a), ceil(a) and the C cast (int)a / (size_t)a, which truncates toward zero
RFloor(a) == a[1] \div a[2]
RCeil(a) == -((-a[1]) \div a[2])
RTrunc(a) == IF a[1] >= 0 THEN RFloor(a) ELSE RCeil(a)

Half == Frac(1, 2)
Zero == R(0)
One == R(1)

\* sqrt of a natural number that is a perfect square
ISqrt(n) == CHOOSE r \in 0..n : r * r = n

(* Vector3 *)
IVec(a, b, c) == << R(a), R(b), R(c) >>
VAdd(u, v) == << RAdd(u[1], v[1]), RAdd(u[2], v[2]), RAdd(u[3], v[3]) >>
VScale(v, s) == << RMul(v[1], s), RMul(v[2], s), RMul(v[3], s) >>

\* Vector3::length, for vectors whose length is rational
VLength(v) ==
    LET s == RAdd(RMul(v[1], v[1]), RAdd(RMul(v[2], v[2]), RMul(v[3], v[3])))
    IN  Frac(ISqrt(s[1]), ISqrt(s[2]))

\* Vector3::normalisedCopy (a zero vector is returned unchanged)
normalisedCopy(v) ==
    LET len == VLength(v)
    IN  IF len = Zero THEN v ELSE VScale(v, RDiv(One, len))

-----------------------------------------------------------------------------
(* AxisAlignedBox and Ray, the geometry primitives the intersection calls use *)

\* AxisAlignedBox(0, 0, 0, mWidth, mHeight, mDepth): its maximum corner
AxisAlignedBox == IVec(mWidth, mHeight, mDepth)

\* AxisAlignedBox::getSize().length(): the length of the box diagonal
BoxDiagonal == VLength(AxisAlignedBox)

\* AxisAlignedBox::intersects(const Vector3&): the point is in the closed box
BoxContains(b, p) ==
    \A a \in 1..3 : RLe(Zero, p[a]) /\ RLe(p[a], b[a])

StrictlyInside(b, p) ==
    \A a \in 1..3 : RLt(Zero, p[a]) /\ RLt(p[a], b[a])

\* The distances t >= 0 at which the ray origin + t * unit(direction) is in the
\* closed box and either starts there (t = 0) or crosses a face plane
HitDistances(b, origin, direction) ==
    LET u == normalisedCopy(direction)
        planes == { RDiv(RSub(Zero, origin[a]), u[a]) : a \in { i \in 1..3 : u[i] # Zero } }
                  \cup { RDiv(RSub(b[a], origin[a]), u[a]) : a \in { i \in 1..3 : u[i] # Zero } }
    IN  { t \in planes \cup { Zero } :
            RLe(Zero, t) /\ BoxContains(b, VAdd(origin, VScale(u, t))) }

\* Ray::intersects(const AxisAlignedBox&): (hit, distance to the nearest hit),
\* the distance measured along the normalised direction
RayIntersects(b, origin, direction) ==
    LET ts == HitDistances(b, origin, direction)
    IN  IF ts = {} THEN << FALSE, Zero >>
        ELSE << TRUE, CHOOSE t \in ts : \A s \in ts : RLe(t, s) >>

-----------------------------------------------------------------------------
\* getIntersectionStart with the box built from the last sample indices
\* (mWidth - 1, ...) instead of the dimensions
getIntersectionStartSmallBox(r, maxDist) ==
    LET small == IVec(mWidth - 1, mHeight - 1, mDepth - 1)
    IN  IF BoxContains(small, r.origin)
        THEN r.origin
        ELSE LET intersection == RayIntersects(small, r.origin, r.direction)
             IN  IF intersection[1]
                 THEN VAdd(r.origin, VScale(normalisedCopy(r.direction), intersection[2]))
                 ELSE r.origin

(* GridSource::getIntersectionStart, lines 39-59 *)

getIntersectionStart(r, maxDist) ==
    IF BoxContains(AxisAlignedBox, r.origin)
    THEN r.origin
    ELSE LET intersection == RayIntersects(AxisAlignedBox, r.origin, r.direction)
         IN  IF intersection[1]
             THEN VAdd(r.origin, VScale(normalisedCopy(r.direction), intersection[2]))
             ELSE r.origin

(* GridSource::getIntersectionEnd, lines 63-77 *)

getIntersectionEnd(r, maxDist) ==
    LET direction == normalisedCopy(r.direction)
        invertedDirection == VScale(direction, R(-1))
        origin == VAdd(r.origin, VScale(direction, BoxDiagonal))
        intersection == RayIntersects(AxisAlignedBox, origin, invertedDirection)
    IN  IF intersection[1]
        THEN VAdd(origin, VScale(invertedDirection, intersection[2]))
        ELSE VAdd(r.origin, VScale(direction, maxDist))

-----------------------------------------------------------------------------
(* The storage and gradient accessors GridSource is layered over *)

Lattice(w, h, d) == (0..w) \X (0..h) \X (0..d)

\* getVolumeGridValue(x, y, z): the scalar accessor of the backing storage
getVolumeGridValue(i, j, k) == mGrid[<< i, j, k >>]

\* getGradient(x, y, z): the per-lattice-point gradient accessor. Two accessors
\* are modelled: one whose gradient is positive purely along +x, and one with
\* all three components varying from point to point.
getGradient(i, j, k) ==
    IF mGradKind = "plusx"
    THEN IVec(1 + i + 2 * j + k, 0, 0)
    ELSE IVec(i - 2 * j, 3 * j + k - 4, i * k + j + 1)

\* scaledPosition of lines 96 and 149
scaledPosition(p) ==
    << RMul(p[1], mPosXScale), RMul(p[2], mPosYScale), RMul(p[3], mPosZScale) >>

\* The blend of lines 173-186 (and 120-133) over the eight corner samples
\* f[<<i, j, k>>], i, j, k in {0, 1}, written as the code writes it
Blend(f, dX, dY, dZ) ==
    LET oneMinX == RSub(One, dX)
        oneMinY == RSub(One, dY)
        oneMinZ == RSub(One, dZ)
        oneMinXoneMinY == RMul(oneMinX, oneMinY)
        dXOneMinY == RMul(dX, oneMinY)
        near == RAdd(RAdd(RMul(f[<<0, 0, 0>>], oneMinXoneMinY),
                          RMul(f[<<1, 0, 0>>], dXOneMinY)),
                     RMul(RMul(f[<<0, 1, 0>>], oneMinX), dY))
        far == RAdd(RAdd(RMul(f[<<0, 0, 1>>], oneMinXoneMinY),
                         RMul(f[<<1, 0, 1>>], dXOneMinY)),
                    RMul(RMul(f[<<0, 1, 1>>], oneMinX), dY))
        top == RAdd(RMul(f[<<1, 1, 0>>], oneMinZ), RMul(f[<<1, 1, 1>>], dZ))
    IN  RAdd(RAdd(RMul(oneMinZ, near), RMul(dZ, far)), RMul(RMul(dX, dY), top))

Corners == { 0, 1 } \X { 0, 1 } \X { 0, 1 }

\* x0/x1, y0/y1, z0/z1 of lines 153-158 (and 100-105): index 0 is the
\* truncated coordinate, index 1 its ceiling
CellIndex(s, bit) == IF bit = 0 THEN RTrunc(s) ELSE RCeil(s)

\* dX, dY, dZ of lines 160-162 (and 107-109)
CellOffset(s) == RSub(s, R(RTrunc(s)))

\* the rounding without the + 0.5: plain truncation
NearestIndexTruncating(s) == RTrunc(s)

\* the rounding of lines 192-194 and 139: (size_t)(s + 0.5)
NearestIndex(s) == RTrunc(RAdd(s, Half))

\* getValue with the x and y offsets exchanged in the blend
getValueOffsetsSwapped(p) ==
    LET sp == scaledPosition(p)
    IN  IF mTrilinearValue
        THEN LET f == [ c \in Corners |->
                          getVolumeGridValue(CellIndex(sp[1], c[1]),
                                             CellIndex(sp[2], c[2]),
                                             CellIndex(sp[3], c[3])) ]
             IN  Blend(f, CellOffset(sp[2]), CellOffset(sp[1]), CellOffset(sp[3]))
        ELSE getVolumeGridValue(NearestIndex(sp[1]), NearestIndex(sp[2]), NearestIndex(sp[3]))

(* GridSource::getValue, lines 147-198 *)

getValue(p) ==
    LET sp == scaledPosition(p)
    IN  IF mTrilinearValue
        THEN LET f == [ c \in Corners |->
                          getVolumeGridValue(CellIndex(sp[1], c[1]),
                                             CellIndex(sp[2], c[2]),
                                             CellIndex(sp[3], c[3])) ]
             IN  Blend(f, CellOffset(sp[1]), CellOffset(sp[2]), CellOffset(sp[3]))
        ELSE getVolumeGridValue(NearestIndex(sp[1]), NearestIndex(sp[2]), NearestIndex(sp[3]))

\* the lattice points getValue passes to getVolumeGridValue (lines 164-171, 195)
getValueReads(p) ==
    LET sp == scaledPosition(p)
    IN  IF mTrilinearValue
        THEN { << CellIndex(sp[1], c[1]), CellIndex(sp[2], c[2]), CellIndex(sp[3], c[3]) >> :
                 c \in Corners }
        ELSE { << NearestIndex(sp[1]), NearestIndex(sp[2]), NearestIndex(sp[3]) >> }

\* getValueAndGradient without the negation of line 140
getValueAndGradientNotNegated(p) ==
    LET sp == scaledPosition(p)
        normal ==
            IF mTrilinearGradient
            THEN LET f == [ c \in Corners |->
                              getGradient(CellIndex(sp[1], c[1]),
                                          CellIndex(sp[2], c[2]),
                                          CellIndex(sp[3], c[3])) ]
                     blended == [ a \in 1..3 |->
                                    Blend([ c \in Corners |-> f[c][a] ],
                                          CellOffset(sp[1]), CellOffset(sp[2]), CellOffset(sp[3])) ]
                 IN  VScale(blended, R(-1))
            ELSE getGradient(NearestIndex(sp[1]), NearestIndex(sp[2]), NearestIndex(sp[3]))
    IN  << normal[1], normal[2], normal[3], getValue(p) >>

(* GridSource::getValueAndGradient, lines 94-143 *)

getValueAndGradient(p) ==
    LET sp == scaledPosition(p)
        normal ==
            IF mTrilinearGradient
            THEN LET f == [ c \in Corners |->
                              getGradient(CellIndex(sp[1], c[1]),
                                          CellIndex(sp[2], c[2]),
                                          CellIndex(sp[3], c[3])) ]
                     blended == [ a \in 1..3 |->
                                    Blend([ c \in Corners |-> f[c][a] ],
                                          CellOffset(sp[1]), CellOffset(sp[2]), CellOffset(sp[3])) ]
                 IN  VScale(blended, R(-1))
            ELSE VScale(getGradient(NearestIndex(sp[1]), NearestIndex(sp[2]), NearestIndex(sp[3])),
                        R(-1))
    IN  << normal[1], normal[2], normal[3], getValue(p) >>

-----------------------------------------------------------------------------
(* Bounds of the model *)

\* ray origins lie up to MaxCoord outside the box on each axis (and, further
\* out, one box diagonal beyond that)
MaxCoord == 1
\* maxDistance is 1 or MaxDistance
MaxDistance == 2
\* sampled positions lie on the lattice points 0 .. MaxPoint, on the last
\* point of each axis and inside the cell between points 1 and 2
MaxPoint == 2
\* bake centers have coordinates -1 .. MaxCenter (and 1/2)
MaxCenter == 2
\* bake radii are 0 .. MaxRadius (and 1/2)
MaxRadius == 2

-----------------------------------------------------------------------------
(* Values the unexercised parts of the state take in each specification *)

ConstGrid(w, h, d) == [ q \in Lattice(w, h, d) |-> One ]

IdleRay == ray = NoRay /\ maxDistance = None /\ startRet = None /\ endRet = None
IdleField == position = None /\ valueRet = None /\ vgRet = None /\ reads = {}
IdleBake ==
    /\ center = None /\ radius = None /\ operation = Unbound /\ sourceB = None
    /\ pc = "idle" /\ oldTrilinearValue = FALSE /\ box = NoBox
    /\ x = 0 /\ y = 0 /\ z = 0 /\ writes = << >>
    /\ pre = [ mTrilinearValue |-> mTrilinearValue, mGrid |-> mGrid, probe |-> One ]

-----------------------------------------------------------------------------
(* Rays against the lattice box *)

\* lattices whose box diagonal has a rational length
RayDims == { << 1, 2, 2 >>, << 2, 2, 1 >> }

\* directions of rational length: the axes, a direction that is not of unit
\* length, and oblique directions
Directions ==
    { IVec(1, 0, 0), IVec(-1, 0, 0), IVec(0, 1, 0), IVec(0, -1, 0),
      IVec(0, 0, 1), IVec(0, 0, -1), IVec(3, 0, 0), IVec(0, -4, 3) }
    \cup { IVec(1, 2, 2), IVec(-1, 2, -2), IVec(1, -2, -2), IVec(-2, -2, -1) }

\* origin coordinates along an axis of the given dimension: around and in the
\* box, its middle, and a point more than a box diagonal in front of it
OriginCoords(dim, diag) ==
    { R(n) : n \in (-MaxCoord)..(dim + MaxCoord) }
    \cup { Frac(dim, 2), R(-(diag + MaxCoord)) }

InitRay ==
    /\ \E dims \in RayDims : mWidth = dims[1] /\ mHeight = dims[2] /\ mDepth = dims[3]
    /\ mPosXScale = One /\ mPosYScale = One /\ mPosZScale = One
    /\ mTrilinearValue = FALSE /\ mTrilinearGradient = FALSE
    /\ mGrid = ConstGrid(mWidth, mHeight, mDepth)
    /\ mGradKind = "plusx"
    /\ LET diag == ISqrt(mWidth * mWidth + mHeight * mHeight + mDepth * mDepth)
       IN  ray \in [ origin : OriginCoords(mWidth, diag) \X OriginCoords(mHeight, diag)
                                \X OriginCoords(mDepth, diag),
                     direction : Directions ]
    /\ maxDistance \in { One, R(MaxDistance) }
    /\ startRet = None /\ endRet = None
    /\ IdleField /\ IdleBake

\* a caller asks for the entry point of its ray
CallGetIntersectionStart ==
    /\ startRet = None
    /\ startRet' = getIntersectionStart(ray, maxDistance)
    /\ UNCHANGED << objVars, mTrilinearValue, mGrid, ray, maxDistance, endRet,
                    fieldVars, bakeArgs, bakeVars >>

\* a caller asks for the exit point of its ray
CallGetIntersectionEnd ==
    /\ endRet = None
    /\ endRet' = getIntersectionEnd(ray, maxDistance)
    /\ UNCHANGED << objVars, mTrilinearValue, mGrid, ray, maxDistance, startRet,
                    fieldVars, bakeArgs, bakeVars >>

NextRay == CallGetIntersectionStart \/ CallGetIntersectionEnd

SpecRay == InitRay /\ [][NextRay]_vars

-----------------------------------------------------------------------------
(* Sampling the field *)

FieldDims == { << 4, 4, 4 >> }

\* scale factors: unit, and a different factor on each axis
Scales == { << One, One, One >>, << R(2), Half, One >> }

\* the storage contents sampled: all 1.0 with one sample of 5.0 in the middle,
\* and samples that differ from point to point and are not linear in x, y, z
SpikeGrid(w, h, d) ==
    [ q \in Lattice(w, h, d) |->
        IF q = << w \div 2, h \div 2, d \div 2 >> THEN R(5) ELSE One ]
PolyGrid(w, h, d) ==
    [ q \in Lattice(w, h, d) |-> R(1 + q[1] + 3 * q[2] + 9 * q[3] + q[1] * q[2] * q[3]) ]
Grids(w, h, d) == { SpikeGrid(w, h, d), PolyGrid(w, h, d) }

\* fractional parts of the sampled coordinates
Offsets == { Zero, Frac(2, 5), Half, Frac(3, 5) }

\* lattice-space coordinates along an axis of the given dimension
LatCoords(dim) ==
    { c \in { RAdd(One, f) : f \in Offsets } \cup { R(k) : k \in 0..MaxPoint } \cup { R(dim) } :
        RLe(c, R(dim)) }

InitField ==
    /\ \E dims \in FieldDims : mWidth = dims[1] /\ mHeight = dims[2] /\ mDepth = dims[3]
    /\ \E sc \in Scales : mPosXScale = sc[1] /\ mPosYScale = sc[2] /\ mPosZScale = sc[3]
    /\ mTrilinearValue \in BOOLEAN /\ mTrilinearGradient \in BOOLEAN
    /\ mGrid \in Grids(mWidth, mHeight, mDepth)
    /\ mGradKind \in { "plusx", "mixed" }
    /\ \E lx \in LatCoords(mWidth), ly \in LatCoords(mHeight), lz \in LatCoords(mDepth) :
         position = << RDiv(lx, mPosXScale), RDiv(ly, mPosYScale), RDiv(lz, mPosZScale) >>
    /\ valueRet = None /\ vgRet = None /\ reads = {}
    /\ IdleRay /\ IdleBake

\* a caller samples the value at its position
CallGetValue ==
    /\ valueRet = None
    /\ valueRet' = getValue(position)
    /\ reads' = getValueReads(position)
    /\ UNCHANGED << objVars, mTrilinearValue, mGrid, rayVars, position, vgRet,
                    bakeArgs, bakeVars >>

\* a caller samples value and gradient at its position
CallGetValueAndGradient ==
    /\ vgRet = None
    /\ vgRet' = getValueAndGradient(position)
    /\ UNCHANGED << objVars, mTrilinearValue, mGrid, rayVars, position, valueRet, reads,
                    bakeArgs, bakeVars >>

NextField == CallGetValue \/ CallGetValueAndGradient

SpecField == InitField /\ [][NextField]_vars

-----------------------------------------------------------------------------
(* GridSource::combineWithSource, lines 223-260 *)

\* Math::Clamp(val, minval, maxval)
Clamp(val, minval, maxval) ==
    LET lo == IF val < maxval THEN val ELSE maxval
    IN  IF lo > minval THEN lo ELSE minval

\* the iteration box with the end bounds clamped one past the dimension
BakeBoxEndOffByOne(c, r) ==
    [ xStart |-> Clamp(RTrunc(RSub(c[1], r)), 0, mWidth),
      xEnd   |-> Clamp(RTrunc(RAdd(c[1], r)), 0, mWidth + 1),
      yStart |-> Clamp(RTrunc(RSub(c[2], r)), 0, mHeight),
      yEnd   |-> Clamp(RTrunc(RAdd(c[2], r)), 0, mHeight + 1),
      zStart |-> Clamp(RTrunc(RSub(c[3], r)), 0, mDepth),
      zEnd   |-> Clamp(RTrunc(RAdd(c[3], r)), 0, mDepth + 1) ]

\* xStart .. zEnd of lines 237-242
BakeBox(c, r) ==
    [ xStart |-> Clamp(RTrunc(RSub(c[1], r)), 0, mWidth),
      xEnd   |-> Clamp(RTrunc(RAdd(c[1], r)), 0, mWidth),
      yStart |-> Clamp(RTrunc(RSub(c[2], r)), 0, mHeight),
      yEnd   |-> Clamp(RTrunc(RAdd(c[2], r)), 0, mHeight),
      zStart |-> Clamp(RTrunc(RSub(c[3], r)), 0, mDepth),
      zEnd   |-> Clamp(RTrunc(RAdd(c[3], r)), 0, mDepth) ]

\* pos of lines 250-252: the lattice point in world space
WorldPos(i, j, k) ==
    LET worldWidthScale == RDiv(One, mPosXScale)
        worldHeightScale == RDiv(One, mPosYScale)
        worldDepthScale == RDiv(One, mPosZScale)
    IN  << RMul(R(i), worldWidthScale), RMul(R(j), worldHeightScale),
           RMul(R(k), worldDepthScale) >>

\* the other field, source B: a field falling off linearly from its value
\* at the world origin
SourceBValue(b, p) ==
    RSub(b, RAdd(p[1], RAdd(RMul(R(2), p[2]), RMul(R(4), p[3]))))

\* the combination of the two operand values
Combine(kind, a, b) ==
    CASE kind = "union" -> RMax(a, b)
      [] kind = "intersection" -> RMin(a, b)
      [] OTHER -> RMin(a, RNeg(b))

\* operation->getValue(pos): operand A is this field, sampled as its flags
\* stand at the time of the call
operationGetValue(p) ==
    Combine(operation.kind, getValue(p), SourceBValue(operation.sourceB, p))

\* the loops of lines 244-248 have a point left to visit
InLoop == pc = "loop" /\ z < box.zEnd

\* lines 225-243, and entry into the loops: binds the operands, saves and
\* clears the value flag, computes the iteration box
BakeBegin ==
    /\ pc = "idle"
    /\ operation' = [ operation EXCEPT !.sourceA = "this", !.sourceB = sourceB ]
    /\ oldTrilinearValue' = mTrilinearValue
    /\ mTrilinearValue' = FALSE
    /\ LET b == BakeBox(center, radius)
       IN  /\ box' = b
           \* a loop nest with an empty x or y range visits nothing
           /\ z' = IF b.xStart < b.xEnd /\ b.yStart < b.yEnd THEN b.zStart
                   ELSE IF b.zStart < b.zEnd THEN b.zEnd ELSE b.zStart
           /\ y' = b.yStart
           /\ x' = b.xStart
    /\ pc' = "loop"
    /\ UNCHANGED << objVars, mGrid, rayVars, fieldVars, center, radius, sourceB, writes, pre >>

\* one pass of the loop body, lines 250-254, and the loop increments
BakeStep ==
    /\ InLoop
    /\ LET pos == WorldPos(x, y, z)
           value == operationGetValue(pos)
       IN  /\ mGrid' = [ mGrid EXCEPT ![<< x, y, z >>] = value ]
           /\ writes' = Append(writes, [ x |-> x, y |-> y, z |-> z, pos |-> pos,
                                         value |-> value, trilinear |-> mTrilinearValue ])
    /\ IF x + 1 < box.xEnd
       THEN x' = x + 1 /\ UNCHANGED << y, z >>
       ELSE IF y + 1 < box.yEnd
            THEN x' = box.xStart /\ y' = y + 1 /\ UNCHANGED z
            ELSE x' = box.xStart /\ y' = box.yStart /\ z' = z + 1
    /\ UNCHANGED << objVars, mTrilinearValue, rayVars, fieldVars, bakeArgs, pc,
                    oldTrilinearValue, box, pre >>

\* operation->getValue or setVolumeGridValue throws at the point being
\* visited: the exception leaves combineWithSource through lines 253-254
BakeThrow ==
    /\ InLoop
    /\ pc' = "thrown"
    /\ UNCHANGED << objVars, mTrilinearValue, mGrid, rayVars, fieldVars, bakeArgs,
                    oldTrilinearValue, box, x, y, z, writes, pre >>

\* the end of combineWithSource without the restore of line 259
BakeEndNoRestore ==
    /\ pc = "loop" /\ ~(pc = "loop" /\ z < box.zEnd)
    /\ pc' = "done"
    /\ UNCHANGED << objVars, mTrilinearValue, mGrid, rayVars, fieldVars, bakeArgs,
                    oldTrilinearValue, box, x, y, z, writes, pre >>

\* line 259, after the loops
BakeEnd ==
    /\ pc = "loop" /\ ~InLoop
    /\ mTrilinearValue' = oldTrilinearValue
    /\ pc' = "done"
    /\ UNCHANGED << objVars, mGrid, rayVars, fieldVars, bakeArgs, oldTrilinearValue,
                    box, x, y, z, writes, pre >>

BakeDims == { << 2, 2, 1 >>, << 3, 1, 2 >> }

CenterCoords == { R(n) : n \in (-1)..MaxCenter } \cup { Half }
Radii == { R(n) : n \in 0..MaxRadius } \cup { Half }

\* an off-lattice position at which nearest-neighbour and trilinear sampling differ
Probe == << RDiv(Half, mPosXScale), RDiv(Half, mPosYScale), RDiv(Half, mPosZScale) >>

InitBake ==
    /\ \E dims \in BakeDims : mWidth = dims[1] /\ mHeight = dims[2] /\ mDepth = dims[3]
    /\ \E sc \in Scales : mPosXScale = sc[1] /\ mPosYScale = sc[2] /\ mPosZScale = sc[3]
    /\ mTrilinearValue \in BOOLEAN /\ mTrilinearGradient = FALSE
    /\ mGrid = PolyGrid(mWidth, mHeight, mDepth)
    /\ mGradKind = "plusx"
    /\ center \in CenterCoords \X CenterCoords \X CenterCoords
    /\ radius \in Radii
    /\ operation \in [ kind : { "union", "difference" }, sourceA : { "none" }, sourceB : { None } ]
    /\ sourceB = R(4)
    /\ pc = "idle" /\ oldTrilinearValue = FALSE /\ box = NoBox
    /\ x = 0 /\ y = 0 /\ z = 0 /\ writes = << >>
    /\ pre = [ mTrilinearValue |-> mTrilinearValue, mGrid |-> mGrid, probe |-> getValue(Probe) ]
    /\ IdleRay /\ IdleField

NextBake == BakeBegin \/ BakeStep \/ BakeThrow \/ BakeEnd

SpecBake == InitBake /\ [][NextBake]_vars

-----------------------------------------------------------------------------
(* Properties of the intersection calls *)

\* the ray starts outside the box and its forward half-line never meets it
RayMisses ==
    /\ ~BoxContains(AxisAlignedBox, ray.origin)
    /\ HitDistances(AxisAlignedBox, ray.origin, ray.direction) = {}

\* the forward half-line of the ray meets the box
RayHits == HitDistances(AxisAlignedBox, ray.origin, ray.direction) # {}

\* the point origin + normalized(direction) * maxDistance
AtMaxDistance == VAdd(ray.origin, VScale(normalisedCopy(ray.direction), maxDistance))

\* the point getIntersectionEnd marches to before it looks back
FarPoint == VAdd(ray.origin, VScale(normalisedCopy(ray.direction), BoxDiagonal))

\* the signed distance of point p from the ray origin, along the ray
Along(p) ==
    LET u == normalisedCopy(ray.direction)
    IN  RAdd(RMul(RSub(p[1], ray.origin[1]), u[1]),
             RAdd(RMul(RSub(p[2], ray.origin[2]), u[2]),
                  RMul(RSub(p[3], ray.origin[3]), u[3])))

OnSurface(p) == BoxContains(AxisAlignedBox, p) /\ ~StrictlyInside(AxisAlignedBox, p)

\* C9: for a ray whose origin is strictly inside the lattice box,
\* getIntersectionStart returns the origin, whatever direction and maxDistance.
C9_StartInsideIsOrigin ==
    (startRet # None /\ StrictlyInside(AxisAlignedBox, ray.origin))
        => startRet = ray.origin

\* getIntersectionStart has returned for an origin strictly inside the box and
\* an oblique direction
C9_Witness ==
    /\ startRet # None
    /\ StrictlyInside(AxisAlignedBox, ray.origin)
    /\ ray.direction = IVec(-1, 2, -2)

\* C3: for a ray that misses the box (origin outside, no forward
\* intersection, pointing away included), getIntersectionStart returns the
\* origin and getIntersectionEnd returns origin + normalized(direction) * maxDistance.
C3_MissFallsBack ==
    RayMisses =>
        /\ (startRet # None => startRet = ray.origin)
        /\ (endRet # None => endRet = AtMaxDistance)

\* C10: the far point is never strictly inside the box and never still in
\* front of it, so that whenever the forward ray meets the box the exit point
\* is on the box surface, no nearer along the ray than the entry point.
C10_ExitOnSurfaceAfterEntry ==
    endRet # None =>
        /\ ~StrictlyInside(AxisAlignedBox, FarPoint)
        /\ ~(~BoxContains(AxisAlignedBox, FarPoint)
             /\ HitDistances(AxisAlignedBox, FarPoint, ray.direction) # {})
        /\ (startRet # None /\ RayHits)
            => /\ OnSurface(endRet)
               /\ RLe(Along(startRet), Along(endRet))

-----------------------------------------------------------------------------
(* Properties of the sampling calls *)

RECURSIVE RSum(_, _)
RSum(f, n) == IF n = 0 THEN Zero ELSE RAdd(f[n], RSum(f, n - 1))

CornerSeq ==
    << <<0, 0, 0>>, <<1, 0, 0>>, <<0, 1, 0>>, <<1, 1, 0>>,
       <<0, 0, 1>>, <<1, 0, 1>>, <<0, 1, 1>>, <<1, 1, 1>> >>

\* the position in lattice space
Scaled == scaledPosition(position)

\* x_0 = floor, x_1 = ceil; wx_0 = 1 - dX, wx_1 = dX
Corner(s, bit) == IF bit = 0 THEN RFloor(s) ELSE RCeil(s)
Weight(d, bit) == IF bit = 0 THEN RSub(One, d) ELSE d

\* the eight-corner weighted sum of F over the cell around the position
EightCornerSum(F(_, _, _)) ==
    LET sp == Scaled
        dX == RSub(sp[1], R(RFloor(sp[1])))
        dY == RSub(sp[2], R(RFloor(sp[2])))
        dZ == RSub(sp[3], R(RFloor(sp[3])))
    IN  RSum([ n \in 1..8 |->
                 LET c == CornerSeq[n]
                 IN  RMul(F(Corner(sp[1], c[1]), Corner(sp[2], c[2]), Corner(sp[3], c[3])),
                          RMul(Weight(dX, c[1]), RMul(Weight(dY, c[2]), Weight(dZ, c[3])))) ], 8)

Sample(i, j, k) == mGrid[<< i, j, k >>]

\* the lattice point nearest the position: trunc(scaled coordinate + 0.5) per axis
Nearest ==
    LET sp == Scaled
    IN  << RTrunc(RAdd(sp[1], Half)), RTrunc(RAdd(sp[2], Half)), RTrunc(RAdd(sp[3], Half)) >>

UnitScale == mPosXScale = One /\ mPosYScale = One /\ mPosZScale = One

\* C5: with the value flag set, getValue returns the eight-corner weighted
\* blend of the samples around the position; at a lattice point that is the
\* stored sample, and in the 4x4x4 lattice of 1.0 with 5.0 at (2,2,2) it is
\* 5.0 at (2,2,2) and 3.0 at (1.5,2,2).
C5_TrilinearValue ==
    (mTrilinearValue /\ valueRet # None) =>
        /\ valueRet = EightCornerSum(Sample)
        /\ LET sp == Scaled
           IN  (\A a \in 1..3 : RIsInt(sp[a])) => valueRet = Sample(sp[1][1], sp[2][1], sp[3][1])
        /\ (UnitScale /\ position = IVec(2, 2, 2) /\ mGrid = SpikeGrid(4, 4, 4))
             => valueRet = R(5)
        /\ (UnitScale /\ position = << Frac(3, 2), R(2), R(2) >> /\ mGrid = SpikeGrid(4, 4, 4))
             => valueRet = R(3)

\* getValue has blended samples that differ, at a position off the lattice
\* points on all three axes
C5_Witness ==
    /\ mTrilinearValue /\ valueRet # None
    /\ ~UnitScale
    /\ Scaled = << Frac(7, 5), Frac(3, 2), Frac(8, 5) >>
    /\ mGrid = PolyGrid(mWidth, mHeight, mDepth)

\* C7: with the value flag clear, getValue reads the single sample at index
\* trunc(scaled coordinate + 0.5) on each axis and returns it; with unit
\* scale, at (x+0.4, y, z) that is the sample at (x,y,z) and at (x+0.6, y, z)
\* the sample at (x+1,y,z).
C7_NearestValue ==
    (~mTrilinearValue /\ valueRet # None) =>
        /\ LET n == Nearest IN valueRet = Sample(n[1], n[2], n[3])
        /\ reads = { Nearest }
        /\ (UnitScale /\ RIsInt(position[2]) /\ RIsInt(position[3])) =>
             LET i == RFloor(position[1])
                 j == position[2][1]
                 k == position[3][1]
             IN  /\ position[1] = RAdd(R(i), Frac(2, 5)) => valueRet = Sample(i, j, k)
                 /\ position[1] = RAdd(R(i), Frac(3, 5)) => valueRet = Sample(i + 1, j, k)

\* getValue has snapped (x+0.6, y, z) to the sample at (x+1, y, z), which
\* differs from the one at (x, y, z)
C7_Witness ==
    /\ ~mTrilinearValue /\ valueRet # None /\ UnitScale
    /\ position = << Frac(8, 5), R(1), R(2) >>
    /\ mGrid = PolyGrid(mWidth, mHeight, mDepth)
    /\ valueRet = Sample(2, 1, 2)
    /\ valueRet # Sample(1, 1, 2)

GradientX(i, j, k) == getGradient(i, j, k)[1]
GradientY(i, j, k) == getGradient(i, j, k)[2]
GradientZ(i, j, k) == getGradient(i, j, k)[3]

\* G(p): the trilinear blend of the accessor's gradients when the gradient
\* flag is set, the accessor's gradient at the nearest lattice point otherwise
G == IF mTrilinearGradient
     THEN << EightCornerSum(GradientX), EightCornerSum(GradientY), EightCornerSum(GradientZ) >>
     ELSE LET n == Nearest IN getGradient(n[1], n[2], n[3])

\* the value the value flag selects
V == IF mTrilinearValue
     THEN EightCornerSum(Sample)
     ELSE LET n == Nearest IN Sample(n[1], n[2], n[3])

\* C8: getValueAndGradient(p) returns (-G(p), getValue(p)); G is chosen by
\* the gradient flag alone and the value by the value flag alone; for an
\* accessor gradient positive purely along +x the x component returned is negative.
C8_ValueAndGradient ==
    vgRet # None =>
        /\ LET g == G IN vgRet = << RNeg(g[1]), RNeg(g[2]), RNeg(g[3]), V >>
        /\ valueRet # None => vgRet[4] = valueRet
        /\ mGradKind = "plusx"
             => RLt(vgRet[1], Zero) /\ vgRet[2] = Zero /\ vgRet[3] = Zero

\* getValueAndGradient has returned with the two flags different, off the
\* lattice points, after getValue returned for the same position
C8_Witness ==
    /\ vgRet # None /\ valueRet # None
    /\ mTrilinearGradient /\ ~mTrilinearValue
    /\ mGradKind = "mixed"
    /\ Scaled = << Frac(7, 5), Frac(3, 2), Frac(8, 5) >>
    /\ vgRet[1] # Zero /\ vgRet[2] # Zero /\ vgRet[3] # Zero

-----------------------------------------------------------------------------
(* Properties of combineWithSource *)

Dim(a) == IF a = 1 THEN mWidth ELSE IF a = 2 THEN mHeight ELSE mDepth
PosScale(a) == IF a = 1 THEN mPosXScale ELSE IF a = 2 THEN mPosYScale ELSE mPosZScale

\* the lattice points written, as a set
Written == { << writes[n].x, writes[n].y, writes[n].z >> : n \in 1..Len(writes) }

\* the sphere reaches beyond the lattice on the low and on the high side
SphereBeyondLattice ==
    /\ \E a \in 1..3 : RLt(RSub(center[a], radius), Zero)
    /\ \E a \in 1..3 : RLt(R(Dim(a)), RAdd(center[a], radius))

\* C1: every setVolumeGridValue(x, y, z, .) combineWithSource makes has
\* 0 <= x < width, 0 <= y < height, 0 <= z < depth, also when the sphere
\* reaches beyond the lattice or its center has negative coordinates.
C1_WritesInsideLattice ==
    \A n \in 1..Len(writes) :
        /\ 0 <= writes[n].x /\ writes[n].x < mWidth
        /\ 0 <= writes[n].y /\ writes[n].y < mHeight
        /\ 0 <= writes[n].z /\ writes[n].z < mDepth

\* a bake has completed and written samples, for a sphere with a negative
\* center coordinate that reaches beyond the lattice on both sides
C1_Witness ==
    /\ pc = "done" /\ Len(writes) > 1
    /\ SphereBeyondLattice
    /\ \E a \in 1..3 : RLt(center[a], Zero)

\* C2: combineWithSource leaves the value flag as it found it on every exit
\* path, the exit by an exception of the operator or the sample writer included.
C2_FlagRestoredOnEveryExit ==
    pc \in { "done", "thrown" } => mTrilinearValue = pre.mTrilinearValue

\* the iteration box the claim describes: center -/+ radius converted to
\* lattice index space by the axis scale factor, truncated and clamped
ScaledStart(a) == Clamp(RTrunc(RMul(RSub(center[a], radius), PosScale(a))), 0, Dim(a))
ScaledEnd(a) == Clamp(RTrunc(RMul(RAdd(center[a], radius), PosScale(a))), 0, Dim(a))
ScaledBox ==
    { q \in Lattice(mWidth, mHeight, mDepth) :
        \A a \in 1..3 : ScaledStart(a) <= q[a] /\ q[a] < ScaledEnd(a) }

\* what the operator yields at lattice point q over the samples as they were
\* before the call
ResultAt(q) ==
    LET p == << RDiv(R(q[1]), mPosXScale), RDiv(R(q[2]), mPosYScale), RDiv(R(q[3]), mPosZScale) >>
    IN  Combine(operation.kind, pre.mGrid[q], SourceBValue(sourceB, p))

\* a completed bake wrote exactly the points of region S, each once, with the
\* operator's result at the point's world position, and nothing else changed
BakedExactly(S) ==
    /\ Written = S
    /\ Len(writes) = Cardinality(S)
    /\ \A n \in 1..Len(writes) :
         LET q == << writes[n].x, writes[n].y, writes[n].z >>
         IN  /\ writes[n].pos = << RDiv(R(q[1]), mPosXScale), RDiv(R(q[2]), mPosYScale),
                                   RDiv(R(q[3]), mPosZScale) >>
             /\ writes[n].value = ResultAt(q)
    /\ \A q \in Lattice(mWidth, mHeight, mDepth) :
         mGrid[q] = IF q \in S THEN ResultAt(q) ELSE pre.mGrid[q]

\* C4: for every center, radius and scale factors, the points overwritten are
\* exactly those of the box of center -/+ radius converted to lattice index
\* space, each written once with the operator's result at its world
\* position, every other sample unchanged.
C4_BakesScaledBox ==
    pc = "done" => BakedExactly(ScaledBox)

\* C6: after combineWithSource returns normally the value flag is as before
\* the call, for both flag values and every region; so getValue off the
\* lattice points over unchanged samples is as before the bake; and every
\* operator evaluation during the bake saw the field in nearest-neighbour mode.
C6_FlagRestoredAfterBake ==
    /\ pc = "done" =>
         /\ mTrilinearValue = pre.mTrilinearValue
         /\ mGrid = pre.mGrid => getValue(Probe) = pre.probe
    /\ \A n \in 1..Len(writes) : ~writes[n].trilinear

\* a bake of a non-empty region has returned on a field sampled trilinearly,
\* leaving the samples as they were; the probe is a position where the
\* sampling mode shows
C6_Witness ==
    /\ pc = "done" /\ pre.mTrilinearValue
    /\ Len(writes) > 1
    /\ mGrid = pre.mGrid
    /\ pre.probe # mGrid[<< 1, 1, 1 >>]
    /\ pre.probe # mGrid[<< 0, 0, 0 >>]

====
